---- MODULE Spec2Model ----
(***************************************************************************)
(* A model of main.py: the xCluster DR helper functions that drive the     *)
(* YBA control plane.  The calling flow is one process (pc); every remote  *)
(* request it makes is one step, so that the control plane (task progress, *)
(* out-of-band membership changes) can move between two requests.          *)
(***************************************************************************)
EXTENDS Integers, Sequences, FiniteSets, TLC

\* ------------------------------------------------------------------ bounds
\* status polls that find the task non-terminal, per wait
MaxPolls == 2
\* runs of the script, one operation each
MaxInvocations == 1
\* membership changes made behind the flow's back
MaxOutOfBand == 1
\* the operations one run of the flow calls in sequence
MaxSequence == 2
\* runs of the script that add or remove tables
MaxTableChanges == 2

\* ------------------------------------------------------------ remote data
PGSQL == "PGSQL_TABLE_TYPE"

TableInfo(id, ks, schema, name, type) ==
    [tableID |-> id, keySpace |-> ks, pgSchemaName |-> schema,
     tableName |-> name, tableType |-> type]

UniverseUUIDByName == [east |-> "u-east", central |-> "u-central"]

UniverseNames == {"east", "central", "nowhere"}

\* the tables of universe east, as the list-tables endpoint reports them
EastTables ==
    << TableInfo("t1", "yugabyte", "public", "a", PGSQL),
       TableInfo("t2", "yugabyte", "public", "b", PGSQL),
       TableInfo("t9", "cql", "", "a", "YQL_TABLE_TYPE"),
       TableInfo("t3", "yugabyte2", "public", "a", PGSQL),
       TableInfo("t4", "yugabyte2", "app", "b", PGSQL) >>

\* what universe central may hold: table ids differ from east's, and an id
\* equal to one of east's says nothing about the table behind it
CentralFull ==
    << TableInfo("r1", "yugabyte", "public", "a", PGSQL),
       TableInfo("r2", "yugabyte", "public", "b", PGSQL),
       TableInfo("r3", "yugabyte2", "public", "a", PGSQL),
       TableInfo("r4", "yugabyte2", "app", "b", PGSQL) >>

CentralWithoutT3 ==
    << TableInfo("r1", "yugabyte", "public", "a", PGSQL),
       TableInfo("r2", "yugabyte", "public", "b", PGSQL),
       TableInfo("t3", "yugabyte2", "app", "a", PGSQL),
       TableInfo("r4", "yugabyte2", "app", "b", PGSQL) >>

CentralOnlyFirstDb ==
    << TableInfo("r1", "yugabyte", "public", "a", PGSQL),
       TableInfo("r2", "yugabyte", "public", "b", PGSQL),
       TableInfo("t4", "yugabyte2", "app", "a", PGSQL) >>

Namespaces ==
    << [namespaceUUID |-> "n1", name |-> "yugabyte", tableType |-> PGSQL],
       [namespaceUUID |-> "n0", name |-> "cql", tableType |-> "YQL_TABLE_TYPE"],
       [namespaceUUID |-> "n2", name |-> "yugabyte2", tableType |-> PGSQL] >>

ConfigsWithStorage ==
    << [type |-> "ALERTS", configUUID |-> "c0"],
       [type |-> "STORAGE", configUUID |-> "s1"],
       [type |-> "STORAGE", configUUID |-> "s2"] >>

ConfigsWithoutStorage == << [type |-> "ALERTS", configUUID |-> "c0"] >>

SafetimeResponses ==
    { [safetimes |-> << >>],
      [safetimes |-> << [namespaceId |-> "n1", safetimeEpochUs |-> 10],
                        [namespaceId |-> "n2", safetimeEpochUs |-> 20] >>] }

DrConfig(primary, replica, tables, storage) ==
    [uuid |-> "dr1", primaryUniverseUuid |-> primary,
     drReplicaUniverseUuid |-> replica, tables |-> tables,
     bootstrapParams |-> [backupRequestParams |-> [storageConfigUUID |-> storage]]]

\* ------------------------------------------------------- the flow's inputs
Ops ==
    {"create_xcluster_dr", "delete_xcluster_dr", "add_tables_to_xcluster_dr",
     "remove_tables_from_xcluster_dr", "perform_xcluster_dr_switchover",
     "perform_xcluster_dr_failover", "perform_xcluster_dr_repair",
     "perform_xcluster_dr_sync"}

TargetNames == {"central", "nowhere"}

RequestSets == {{"t3"}, {"t1", "t2"}, {"t1", "t3", "t8"}}

\* db_names of create_xcluster_dr; its default is None
DbNamesChoices ==
    { [is_none |-> TRUE, names |-> {}], [is_none |-> FALSE, names |-> {"yugabyte"}] }

TaskIds == <<"task1", "task2", "task3", "task4">>

VARIABLES
    \* the control plane
    dr_as_source,      \* universe uuid -> drConfigUuidsAsSource
    dr_config,         \* the DR config dr1
    customer_configs,  \* the customer's configs, all types
    central_tables,    \* the tables of universe central
    task,              \* the latest task: uuid, call, body, data (CustomerTaskData)
    n_tasks,           \* tasks created so far
    oob,               \* out-of-band membership changes so far
    \* the calling flow
    pc, op, args, locals, task_response, task_uuid, task_status,
    result, err, trace, submitted, invocations

remote_vars == <<dr_as_source, dr_config, customer_configs, central_tables, task, n_tasks, oob>>
flow_vars == <<pc, op, args, locals, task_response, task_uuid, task_status,
               result, err, trace, submitted, invocations>>
vars == <<dr_as_source, dr_config, customer_configs, central_tables, task, n_tasks, oob,
          pc, op, args, locals, task_response, task_uuid, task_status,
          result, err, trace, submitted, invocations>>


\* --------------------------------------------------------- small helpers
Range(s) == {s[i] : i \in DOMAIN s}

Count(s, c) == Cardinality({i \in DOMAIN s : s[i].call = c})

Ev(c, a) == [call |-> c, arg |-> a]

NoResult == [type |-> "none"]

NoError == [kind |-> "none", msg |-> << >>, detail |-> << >>]

RuntimeError(kind, msg, detail) == [kind |-> kind, msg |-> msg, detail |-> detail]

NoTask ==
    [uuid |-> "", call |-> "none", target |-> "", form |-> [none |-> "none"],
     data |-> [status |-> "Success", percent |-> 100]]

NoResponse == [none |-> "none"]

NoStatus == [none |-> "none"]

NoLocals ==
    [dr_config_source_uuid |-> "", xcluster_dr_config |-> DrConfig("", "", << >>, ""),
     universe_uuid |-> "", all_tables_list |-> << >>,
     existing_tables_id |-> << >>, available_dr_tables |-> << >>,
     filtered_dr_tables_list |-> << >>, tables_include_set |-> << >>,
     storage_config_uuid |-> "", source_universe_uuid |-> "",
     target_universe_uuid |-> "", dbs_list_uuids |-> << >>,
     xcluster_dr_safetimes |-> [safetimes |-> << >>],
     safetime_epoch_map |-> << >>, action_failed_response |-> [none |-> "none"],
     waited |-> NoResult]

Terminal == {"Success", "Failure"}

MutatingCalls ==
    {"_create_dr_config", "_delete_xcluster_dr_config", "_set_tables_in_dr_config",
     "_switchover_xcluster_dr", "_failover_xcluster_dr", "_restart_xcluster_dr_config",
     "_sync_xcluster_dr_config"}

\* --------------------------------------------------- the queries (GET)
\* _get_universe_by_name: the list of universes of that name (none or one)
get_universe_by_name(universe_name) ==
    IF universe_name \in DOMAIN UniverseUUIDByName
    THEN << [universeUUID |-> UniverseUUIDByName[universe_name],
             name |-> universe_name,
             drConfigUuidsAsSource |-> dr_as_source[UniverseUUIDByName[universe_name]]] >>
    ELSE << >>

TablesResponse(universe_uuid) ==
    IF universe_uuid = "u-east" THEN EastTables ELSE central_tables

\* _get_all_ysql_tables_list with dbs_include_list = None
get_all_ysql_tables_list(universe_uuid) ==
    SelectSeq(TablesResponse(universe_uuid), LAMBDA t : t.tableType = PGSQL)

get_configs_by_type(config_type) ==
    SelectSeq(customer_configs, LAMBDA config : config.type = config_type)

get_database_namespaces ==
    SelectSeq(Namespaces, LAMBDA db : db.tableType = PGSQL)

\* ------------------------------------------------ the table-set logic
\* [t['tableID'] for t in tables_list]
TableIDs(tables_list) == [i \in 1..Len(tables_list) |-> tables_list[i].tableID]

\* the universe's table list handed on unfiltered
available_tables_unfiltered(all_tables_list, existing_tables_id) ==
    all_tables_list

\* get_xcluster_dr_available_tables, line 668
available_tables_list(all_tables_list, existing_tables_id) ==
    SelectSeq(all_tables_list, LAMBDA t : t.tableID \notin Range(existing_tables_id))

\* add_tables_to_xcluster_dr, line 698
filter_add_tables(available_dr_tables, add_tables_ids) ==
    SelectSeq(available_dr_tables, LAMBDA t : t.tableID \in add_tables_ids)

\* the add going on with nothing to add
no_tables_to_add_unchecked(filtered_dr_tables_list) == FALSE

\* add_tables_to_xcluster_dr, line 700
no_tables_to_add(filtered_dr_tables_list) == Len(filtered_dr_tables_list) = 0

\* a match on two of the three keys
MatchKeyWithoutSchema(t) == <<t.keySpace, t.tableName>>

\* _validate_dr_replica_tables, lines 347-352
MatchKey(t) == <<t.keySpace, t.pgSchemaName, t.tableName>>

replica_tables_set(replica_tables_list) ==
    {MatchKey(replica_tables_list[i]) : i \in DOMAIN replica_tables_list}

\* a match on the table id instead of the three keys
tables_not_found_by_id(replica_tables_list, source_dr_tables_add_list) ==
    SelectSeq(source_dr_tables_add_list,
              LAMBDA t : t.tableID \notin Range(TableIDs(replica_tables_list)))

tables_not_found(replica_tables_list, source_dr_tables_add_list) ==
    SelectSeq(source_dr_tables_add_list,
              LAMBDA t : MatchKey(t) \notin replica_tables_set(replica_tables_list))

\* an incremental add: the new ids alone
merged_only_new(xcluster_dr_config, available_dr_tables, filtered_dr_tables_list) ==
    TableIDs(available_dr_tables)

\* add_tables_to_xcluster_dr, line 706
merged_dr_tables_list(xcluster_dr_config, available_dr_tables, filtered_dr_tables_list) ==
    xcluster_dr_config.tables \o TableIDs(available_dr_tables)

\* the filter with its test the wrong way round
remove_filter_inverted(tables, remove_tables_ids) ==
    SelectSeq(tables, LAMBDA t : t \in remove_tables_ids)

\* remove_tables_from_xcluster_dr, line 730
remove_filter(tables, remove_tables_ids) ==
    SelectSeq(tables, LAMBDA t : t \notin remove_tables_ids)

\* the check that also refuses to empty the membership
nothing_removed_or_all(filtered_dr_tables_list, tables) ==
    Len(filtered_dr_tables_list) = Len(tables) \/ Len(filtered_dr_tables_list) = 0

\* the check that lets an empty membership through
nothing_removed_unless_empty(filtered_dr_tables_list, tables) ==
    Len(filtered_dr_tables_list) = Len(tables) /\ Len(tables) > 0

\* remove_tables_from_xcluster_dr, line 733
nothing_removed(filtered_dr_tables_list, tables) ==
    Len(filtered_dr_tables_list) = Len(tables)

\* create_xcluster_dr, line 612 (db_names is a set here)
dbs_list_uuids_of(dbs_list, db_names) ==
    LET chosen == SelectSeq(dbs_list, LAMBDA d : d.name \in db_names)
    IN  [i \in 1..Len(chosen) |-> chosen[i].namespaceUUID]

\* a map of the snapshot's first entry alone
safetime_epoch_map_first_only(xcluster_dr_safetimes) ==
    LET st == xcluster_dr_safetimes.safetimes
    IN  [ns \in {st[i].namespaceId : i \in {j \in DOMAIN st : j = 1}} |-> st[1].safetimeEpochUs]

\* perform_xcluster_dr_failover, lines 776-778: a dict, the last entry of a
\* namespace id wins
safetime_epoch_map_of(xcluster_dr_safetimes) ==
    LET st == xcluster_dr_safetimes.safetimes
        Last(ns) == CHOOSE i \in DOMAIN st :
                        /\ st[i].namespaceId = ns
                        /\ \A j \in DOMAIN st : st[j].namespaceId = ns => j <= i
    IN  [ns \in {st[i].namespaceId : i \in DOMAIN st} |-> st[Last(ns)].safetimeEpochUs]

\* ------------------------------------------------------- wait_for_task
\* line 114
HasTaskUUID(response) == "taskUUID" \in DOMAIN response

\* "\n".join(errors)
RECURSIVE JoinNewline(_)
JoinNewline(errors) ==
    IF Len(errors) = 0 THEN << >>
    ELSE IF Len(errors) = 1 THEN <<errors[1]>>
    ELSE <<errors[1], "\n">> \o JoinNewline(Tail(errors))

ErrorStrings(action_failed_response) ==
    [i \in 1..Len(action_failed_response.failedSubTasks) |->
        action_failed_response.failedSubTasks[i].errorString]

\* the message with the first error string only
failure_message_first_only(friendly_name, uuid, action_failed_response) ==
    IF "failedSubTasks" \in DOMAIN action_failed_response
    THEN <<"Task", friendly_name, uuid, "failed with the following errors: ">>
             \o (IF Len(action_failed_response.failedSubTasks) = 0 THEN << >>
                 ELSE <<action_failed_response.failedSubTasks[1].errorString>>)
    ELSE <<"Task", friendly_name, uuid, "failed, but could not get the failure messages">>

\* lines 126-132
failure_message(friendly_name, uuid, action_failed_response) ==
    IF "failedSubTasks" \in DOMAIN action_failed_response
    THEN <<"Task", friendly_name, uuid, "failed with the following errors: ">>
             \o JoinNewline(ErrorStrings(action_failed_response))
    ELSE <<"Task", friendly_name, uuid, "failed, but could not get the failure messages">>

\* line 124: what wait_for_task returns on Success
wait_return(response, status) == [type |-> "CustomerTaskData", value |-> status]

FriendlyName ==
    [create_xcluster_dr |-> "Create xCluster DR",
     delete_xcluster_dr |-> "Delete xCluster DR",
     add_tables_to_xcluster_dr |-> "Add YSQL Tables",
     remove_tables_from_xcluster_dr |-> "Removing YSQL Tables from xCluster DR",
     perform_xcluster_dr_switchover |-> "Switchover XCluster DR",
     perform_xcluster_dr_failover |-> "Failover XCluster DR",
     perform_xcluster_dr_repair |-> "Repair XCluster DR",
     perform_xcluster_dr_sync |-> "Synchronize XCluster DR"]

\* every operation handing on what wait_for_task returned
operation_return_waited(operation, response, waited) == waited

\* what the operation returns once its wait has returned: create_xcluster_dr
\* returns the response's resourceUUID (lines 619-621), the others return
\* what wait_for_task returned
operation_return(operation, response, waited) ==
    IF operation = "create_xcluster_dr"
    THEN [type |-> "str", value |-> response.resourceUUID]
    ELSE waited

FailedResponses ==
    { [error |-> "task not found"],
      [failedSubTasks |-> << >>],
      [failedSubTasks |-> << [errorString |-> "e1"] >>],
      [failedSubTasks |-> << [errorString |-> "e2"], [errorString |-> "e1"] >>] }


\* ------------------------------------------------------------------ Init
Scenarios ==
    { [dr |-> TRUE,  tables |-> <<"t1", "t2">>, central |-> CentralFull,
       configs |-> ConfigsWithStorage],
      [dr |-> TRUE,  tables |-> <<"t1", "t2">>, central |-> CentralWithoutT3,
       configs |-> ConfigsWithStorage],
      [dr |-> TRUE,  tables |-> << >>, central |-> CentralOnlyFirstDb,
       configs |-> ConfigsWithStorage],
      [dr |-> TRUE,  tables |-> <<"t1", "t2">>, central |-> CentralFull,
       configs |-> ConfigsWithoutStorage],
      [dr |-> FALSE, tables |-> << >>, central |-> CentralFull,
       configs |-> ConfigsWithStorage],
      [dr |-> FALSE, tables |-> << >>, central |-> CentralFull,
       configs |-> ConfigsWithoutStorage] }

UniverseUUIDs == {"u-east", "u-central"}

NoArgs ==
    [source_universe_name |-> "", target_universe_name |-> "",
     table_ids |-> {}, db_names |-> [is_none |-> TRUE, names |-> {}]]

Init ==
    \E sc \in Scenarios :
        /\ dr_as_source = [u \in UniverseUUIDs |->
                              IF sc.dr /\ u = "u-east" THEN <<"dr1">> ELSE << >>]
        /\ dr_config = DrConfig("u-east", "u-central", sc.tables, "s1")
        /\ customer_configs = sc.configs
        /\ central_tables = sc.central
        /\ task = NoTask
        /\ n_tasks = 0
        /\ oob = 0
        /\ pc = "idle"
        /\ op = "none"
        /\ args = NoArgs
        /\ locals = NoLocals
        /\ task_response = NoResponse
        /\ task_uuid = ""
        /\ task_status = NoStatus
        /\ result = NoResult
        /\ err = NoError
        /\ trace = << >>
        /\ submitted = << >>
        /\ invocations = 0

\* ------------------------------------------------------------ the caller
FirstStep(operation) ==
    CASE operation = "create_xcluster_dr" -> "create_configs"
      [] operation = "delete_xcluster_dr" -> "delete_universe"
      [] OTHER -> "src_universe"

ArgsOf(operation) ==
    CASE operation = "create_xcluster_dr" ->
            { [source_universe_name |-> s, target_universe_name |-> t,
               table_ids |-> {}, db_names |-> d] :
              s \in UniverseNames, t \in TargetNames, d \in DbNamesChoices }
      [] operation \in {"add_tables_to_xcluster_dr", "remove_tables_from_xcluster_dr"} ->
            { [source_universe_name |-> s, target_universe_name |-> "",
               table_ids |-> ids, db_names |-> NoArgs.db_names] :
              s \in UniverseNames, ids \in RequestSets }
      [] OTHER ->
            { [source_universe_name |-> s, target_universe_name |-> "",
               table_ids |-> {}, db_names |-> NoArgs.db_names] : s \in UniverseNames }

\* the call of one operation (testing(), lines 842-894): its frame is new
Call(operation, a) ==
    /\ op' = operation
    /\ args' = a
    /\ pc' = FirstStep(operation)
    /\ invocations' = invocations + 1
    /\ locals' = NoLocals
    /\ task_response' = NoResponse
    /\ task_uuid' = ""
    /\ task_status' = NoStatus
    /\ result' = NoResult
    /\ err' = NoError
    /\ trace' = << >>
    /\ submitted' = << >>
    \* a task that has ended is history: nothing reads it any more
    /\ task' = IF task.data.status \in Terminal THEN NoTask ELSE task
    /\ UNCHANGED <<dr_as_source, dr_config, customer_configs, central_tables, n_tasks, oob>>

\* a run of the script: one operation, or one more after a run has ended
Invoke ==
    /\ pc \in {"idle", "done"}
    /\ invocations < MaxInvocations
    /\ \E operation \in Ops : \E a \in ArgsOf(operation) : Call(operation, a)

\* one run that calls its operations one after the other: a call follows the
\* return of the call before it, and an exception ends the run (line 893);
\* the names given are those of testing(), lines 828-829
InvokeInSequence ==
    /\ pc = "idle" \/ (pc = "done" /\ err.kind = "none")
    /\ invocations < MaxSequence
    /\ \E operation \in Ops : \E a \in ArgsOf(operation) :
        /\ a.source_universe_name = "east"
        /\ a.target_universe_name \in {"", "central"}
        /\ Call(operation, a)

\* a step that makes one query and goes on
Continue(next_pc, new_locals, event) ==
    /\ pc' = next_pc
    /\ locals' = new_locals
    /\ trace' = Append(trace, event)
    /\ UNCHANGED <<op, args, task_response, task_uuid, task_status, result, err,
                   submitted, invocations>>
    /\ UNCHANGED remote_vars

\* a step that makes one query and raises
Raise(error, new_locals, event) ==
    /\ pc' = "done"
    /\ err' = error
    /\ locals' = new_locals
    /\ trace' = Append(trace, event)
    /\ UNCHANGED <<op, args, task_response, task_uuid, task_status, result,
                   submitted, invocations>>
    /\ UNCHANGED remote_vars


KeyError(key) == RuntimeError("KeyError", <<key>>, << >>)

\* _get_xcluster_dr_configs: the DR config of that uuid, or an error body
get_xcluster_dr_configs(xcluster_dr_uuid) ==
    IF \E u \in UniverseUUIDs : xcluster_dr_uuid \in Range(dr_as_source[u])
    THEN dr_config
    ELSE [error |-> "Cannot find drConfig"]

\* _get_task_status: the CustomerTaskData of that task, or an error body
get_task_status(uuid) ==
    IF task.uuid = uuid THEN task.data ELSE [error |-> "Cannot find task"]

\* runs of the script that change the table set of east's DR config, one
\* operation each (testing(), lines 866-869); a run may follow a run that
\* ended with an exception
InvokeTableChange ==
    /\ pc \in {"idle", "done"}
    /\ invocations < MaxTableChanges
    /\ \E operation \in {"add_tables_to_xcluster_dr", "remove_tables_from_xcluster_dr"} :
        \E a \in ArgsOf(operation) :
            /\ a.source_universe_name = "east"
            /\ Call(operation, a)

\* ------------------------------------- get_source_xcluster_dr_config
\* the lookup without the test that the universe has a DR config
SourceUniverseStepUnchecked(next_pc) ==
    LET get_source_universe_response == get_universe_by_name(args.source_universe_name)
        event == Ev("_get_universe_by_name", args.source_universe_name)
    IN  IF Len(get_source_universe_response) = 0
        THEN Raise(RuntimeError("NotFoundError",
                                <<"the universe", args.source_universe_name, "was not found.">>,
                                << >>), locals, event)
        ELSE Continue(next_pc,
                      [locals EXCEPT !.dr_config_source_uuid =
                          IF Len(get_source_universe_response[1].drConfigUuidsAsSource) = 0
                          THEN ""
                          ELSE get_source_universe_response[1].drConfigUuidsAsSource[1]],
                      event)

\* lines 553-560: the universe by name, then its first DR config as source
SourceUniverseStep(next_pc) ==
    LET get_source_universe_response == get_universe_by_name(args.source_universe_name)
        event == Ev("_get_universe_by_name", args.source_universe_name)
    IN  IF Len(get_source_universe_response) = 0
        THEN Raise(RuntimeError("NotFoundError",
                                <<"the universe", args.source_universe_name, "was not found.">>,
                                << >>), locals, event)
        ELSE IF Len(get_source_universe_response[1].drConfigUuidsAsSource) = 0
        THEN Raise(RuntimeError("NotFoundError",
                                <<"the universe", args.source_universe_name,
                                  "does not have a DR config.">>, << >>), locals, event)
        ELSE Continue(next_pc,
                      [locals EXCEPT !.dr_config_source_uuid =
                          get_source_universe_response[1].drConfigUuidsAsSource[1]],
                      event)

GetSourceUniverse ==
    /\ pc = "src_universe"
    /\ SourceUniverseStep("src_config")

\* what each operation does with the DR config it fetched, up to its next request
AfterSourceConfig(config, event) ==
    CASE op = "add_tables_to_xcluster_dr" ->
            \* lines 688-691
            Continue("avail_universe",
                     [locals EXCEPT !.xcluster_dr_config = config,
                        !.storage_config_uuid =
                            config.bootstrapParams.backupRequestParams.storageConfigUUID],
                     event)
      [] op = "remove_tables_from_xcluster_dr" ->
            \* lines 725-734
            LET filtered == remove_filter(config.tables, args.table_ids)
                new_locals == [locals EXCEPT !.xcluster_dr_config = config,
                                 !.storage_config_uuid =
                                     config.bootstrapParams.backupRequestParams.storageConfigUUID,
                                 !.filtered_dr_tables_list = filtered,
                                 !.tables_include_set = filtered]
            IN  IF nothing_removed(filtered, config.tables)
                THEN Raise(RuntimeError("ValidationError",
                               <<"no table(s) can be removed from the xCluster DR config!">>,
                               << >>), new_locals, event)
                ELSE Continue("set_tables", new_locals, event)
      [] op = "perform_xcluster_dr_switchover" ->
            Continue("switchover", [locals EXCEPT !.xcluster_dr_config = config], event)
      [] op = "perform_xcluster_dr_failover" ->
            Continue("safetime", [locals EXCEPT !.xcluster_dr_config = config], event)
      [] op = "perform_xcluster_dr_repair" ->
            Continue("restart", [locals EXCEPT !.xcluster_dr_config = config], event)
      [] OTHER ->
            Continue("sync", [locals EXCEPT !.xcluster_dr_config = config], event)

\* line 562 and the caller's code up to its next request
GetSourceConfig ==
    /\ pc = "src_config"
    /\ LET config == get_xcluster_dr_configs(locals.dr_config_source_uuid)
           event == Ev("_get_xcluster_dr_configs", locals.dr_config_source_uuid)
       IN  IF "uuid" \notin DOMAIN config
           THEN Raise(KeyError("uuid"), locals, event)
           ELSE AfterSourceConfig(config, event)

\* ---------------------------------- get_xcluster_dr_available_tables
\* line 659: get_universe_uuid_by_name, lines 479-483
AvailGetUniverse ==
    /\ pc = "avail_universe"
    /\ LET universe == get_universe_by_name(args.source_universe_name)
           event == Ev("_get_universe_by_name", args.source_universe_name)
       IN  IF Len(universe) = 0
           THEN Raise(RuntimeError("NotFoundError",
                          <<"failed to find a universe", args.source_universe_name, "by name">>,
                          << >>), locals, event)
           ELSE Continue("avail_tables",
                         [locals EXCEPT !.universe_uuid = universe[1].universeUUID], event)

\* line 660
AvailListTables ==
    /\ pc = "avail_tables"
    /\ Continue("avail_src_universe",
                [locals EXCEPT !.all_tables_list = get_all_ysql_tables_list(locals.universe_uuid)],
                Ev("_get_all_ysql_tables_list", locals.universe_uuid))

\* line 664, first request of get_source_xcluster_dr_config
AvailSourceUniverse ==
    /\ pc = "avail_src_universe"
    /\ SourceUniverseStep("avail_src_config")

\* line 664 (second request), lines 668-673, then add_tables_to_xcluster_dr
\* lines 698-701
AvailSourceConfig ==
    /\ pc = "avail_src_config"
    /\ LET config == get_xcluster_dr_configs(locals.dr_config_source_uuid)
           event == Ev("_get_xcluster_dr_configs", locals.dr_config_source_uuid)
       IN  IF "tables" \notin DOMAIN config
           THEN Raise(KeyError("tables"), locals, event)
           ELSE LET available == available_tables_list(locals.all_tables_list, config.tables)
                    filtered == filter_add_tables(available, args.table_ids)
                    new_locals == [locals EXCEPT !.existing_tables_id = config.tables,
                                     !.available_dr_tables = available,
                                     !.filtered_dr_tables_list = filtered]
                IN  IF no_tables_to_add(filtered)
                    THEN Raise(RuntimeError("ValidationError",
                                   <<"no table(s) can be found to add to the xCluster DR config!">>,
                                   << >>), new_locals, event)
                    ELSE Continue("validate", new_locals, event)

\* the replica check made after the set-tables request instead of before it
ValidateReplicaAfterSubmit ==
    /\ pc = "validate"
    /\ LET replica_uuid == locals.xcluster_dr_config.drReplicaUniverseUuid
           replica_tables_list == get_all_ysql_tables_list(replica_uuid)
           not_found == tables_not_found(replica_tables_list, locals.filtered_dr_tables_list)
           event == Ev("_get_all_ysql_tables_list", replica_uuid)
           tables == merged_dr_tables_list(locals.xcluster_dr_config,
                                           locals.available_dr_tables,
                                           locals.filtered_dr_tables_list)
       IN  /\ Len(not_found) > 0
           /\ pc' = "done"
           /\ err' = RuntimeError("ValidationError",
                          <<"No matching table(s):", "found in the xCluster DR replica!">>,
                          not_found)
           /\ trace' = Append(Append(trace, Ev("_set_tables_in_dr_config",
                                                locals.xcluster_dr_config.uuid)), event)
           /\ submitted' = Append(submitted,
                                  [call |-> "_set_tables_in_dr_config",
                                   target |-> locals.xcluster_dr_config.uuid,
                                   form |-> [tables |-> tables]])
           /\ UNCHANGED <<op, args, locals, task_response, task_uuid, task_status, result,
                          invocations>>
           /\ UNCHANGED remote_vars

\* line 704: _validate_dr_replica_tables (lines 347-355), then line 706
ValidateReplica ==
    /\ pc = "validate"
    /\ LET replica_uuid == locals.xcluster_dr_config.drReplicaUniverseUuid
           replica_tables_list == get_all_ysql_tables_list(replica_uuid)
           not_found == tables_not_found(replica_tables_list, locals.filtered_dr_tables_list)
           event == Ev("_get_all_ysql_tables_list", replica_uuid)
       IN  IF Len(not_found) > 0
           THEN Raise(RuntimeError("ValidationError",
                          <<"No matching table(s):", "found in the xCluster DR replica!">>,
                          not_found), locals, event)
           ELSE Continue("set_tables",
                         [locals EXCEPT !.tables_include_set =
                             merged_dr_tables_list(locals.xcluster_dr_config,
                                                   locals.available_dr_tables,
                                                   locals.filtered_dr_tables_list)],
                         event)


\* ------------------------------------------------------ submit and wait
InitialTaskData ==
    { [status |-> "Initializing"], [status |-> "Running", percent |-> 50] }

BootstrapParams(storage_config_uuid) ==
    [backupRequestParams |-> [parallelism |-> 8, storageConfigUUID |-> storage_config_uuid]]

\* a submission nobody waits for: the operation returns at once
WaitEntryNoWait(response) ==
    /\ task_uuid' = IF HasTaskUUID(response) THEN response.taskUUID ELSE ""
    /\ pc' = "done"
    /\ err' = err

\* the entry without its check: the wait polls whatever id it finds
WaitEntryUnchecked(response) ==
    /\ task_uuid' = IF HasTaskUUID(response) THEN response.taskUUID ELSE ""
    /\ pc' = "poll"
    /\ err' = err

\* lines 114-117: the entry of wait_for_task
WaitEntry(response) ==
    IF HasTaskUUID(response)
    THEN /\ task_uuid' = response.taskUUID
         /\ pc' = "poll"
         /\ err' = err
    ELSE /\ task_uuid' = task_uuid
         /\ pc' = "done"
         /\ err' = RuntimeError("SubmissionError",
                                <<"failed to process", FriendlyName[op], "no taskUUID?">>, << >>)

\* one mutating request (POST, DELETE) and the entry of the wait_for_task
\* that follows it; the control plane accepts it with a new task, or answers
\* with an error body (always, while another task is in flight)
SubmitAndWait(call, target, form) ==
    /\ n_tasks < Len(TaskIds)
    /\ \E accepted \in BOOLEAN : \E data \in InitialTaskData :
        LET ok == accepted /\ task.data.status \in Terminal
            response == IF ok
                        THEN [taskUUID |-> TaskIds[n_tasks + 1], resourceUUID |-> target]
                        ELSE [error |-> "rejected"]
        IN  /\ task_response' = response
            /\ task' = IF ok
                       THEN [uuid |-> response.taskUUID, call |-> call, target |-> target,
                             form |-> form, data |-> data]
                       ELSE task
            /\ n_tasks' = IF ok THEN n_tasks + 1 ELSE n_tasks
            /\ WaitEntry(response)
    /\ submitted' = Append(submitted, [call |-> call, target |-> target, form |-> form])
    /\ trace' = Append(trace, Ev(call, target))
    /\ UNCHANGED <<op, args, locals, task_status, result, invocations>>
    /\ UNCHANGED <<dr_as_source, dr_config, customer_configs, central_tables, oob>>

\* an add that posts the tables asked for, not the full set
SetTablesInDrConfigRequestedOnly ==
    /\ pc = "set_tables"
    /\ SubmitAndWait("_set_tables_in_dr_config", locals.xcluster_dr_config.uuid,
                     [autoIncludeIndexTables |-> TRUE,
                      bootstrapParams |-> BootstrapParams(locals.storage_config_uuid),
                      tables |-> IF op = "add_tables_to_xcluster_dr"
                                 THEN TableIDs(locals.filtered_dr_tables_list)
                                 ELSE locals.tables_include_set])

\* _set_tables_in_dr_config (lines 317-330), called at lines 709 and 736
SetTablesInDrConfig ==
    /\ pc = "set_tables"
    /\ SubmitAndWait("_set_tables_in_dr_config", locals.xcluster_dr_config.uuid,
                     [autoIncludeIndexTables |-> TRUE,
                      bootstrapParams |-> BootstrapParams(locals.storage_config_uuid),
                      tables |-> locals.tables_include_set])

\* lines 749-756 and _switchover_xcluster_dr (lines 373-379)
SwitchoverXclusterDr ==
    /\ pc = "switchover"
    /\ SubmitAndWait("_switchover_xcluster_dr", locals.xcluster_dr_config.uuid,
                     [primaryUniverseUuid |-> locals.xcluster_dr_config.primaryUniverseUuid,
                      drReplicaUniverseUuid |-> locals.xcluster_dr_config.drReplicaUniverseUuid])

\* lines 774-778
GetSafetime ==
    /\ pc = "safetime"
    /\ \E xcluster_dr_safetimes \in SafetimeResponses :
        Continue("failover",
                 [locals EXCEPT !.xcluster_dr_safetimes = xcluster_dr_safetimes,
                    !.safetime_epoch_map = safetime_epoch_map_of(xcluster_dr_safetimes)],
                 Ev("_get_xcluster_dr_safetime", locals.xcluster_dr_config.uuid))

\* lines 781-783 and _failover_xcluster_dr (lines 420-427)
FailoverXclusterDr ==
    /\ pc = "failover"
    /\ SubmitAndWait("_failover_xcluster_dr", locals.xcluster_dr_config.uuid,
                     [primaryUniverseUuid |-> locals.xcluster_dr_config.primaryUniverseUuid,
                      drReplicaUniverseUuid |-> locals.xcluster_dr_config.drReplicaUniverseUuid,
                      namespaceIdSafetimeEpochUsMap |-> locals.safetime_epoch_map])

\* lines 802-803 and _restart_xcluster_dr_config (lines 445-450)
RestartXclusterDrConfig ==
    /\ pc = "restart"
    /\ SubmitAndWait("_restart_xcluster_dr_config", locals.xcluster_dr_config.uuid,
                     [dbs |-> << >>])

\* lines 818-819 and _sync_xcluster_dr_config (lines 466-467)
SyncXclusterDrConfig ==
    /\ pc = "sync"
    /\ SubmitAndWait("_sync_xcluster_dr_config", locals.xcluster_dr_config.uuid,
                     [none |-> "none"])

\* a wait that takes Failure for one more status to wait on
PollStatusRetryOnFailure ==
    /\ pc = "poll"
    /\ LET status == get_task_status(task_uuid)
           fetched == Append(trace, Ev("_get_task_status", task_uuid))
       IN  /\ task_status' = status
           /\ IF "status" \notin DOMAIN status
              THEN /\ pc' = "done"
                   /\ err' = KeyError("status")
                   /\ trace' = fetched
                   /\ UNCHANGED <<locals, result>>
              ELSE IF status.status = "Success"
              THEN /\ pc' = "done"
                   /\ locals' = [locals EXCEPT !.waited = wait_return(task_response, status)]
                   /\ result' = operation_return(op, task_response,
                                                 wait_return(task_response, status))
                   /\ trace' = fetched
                   /\ UNCHANGED err
              ELSE IF "percent" \in DOMAIN status
              THEN /\ pc' = "sleep"
                   /\ trace' = Append(fetched, Ev("print", "Waiting"))
                   /\ UNCHANGED <<locals, result, err>>
              ELSE /\ pc' = "done"
                   /\ err' = KeyError("percent")
                   /\ trace' = fetched
                   /\ UNCHANGED <<locals, result>>
    /\ UNCHANGED <<op, args, task_response, task_uuid, submitted, invocations>>
    /\ UNCHANGED remote_vars

\* lines 119-126 and 135-136: one status fetch and the match on it
PollStatus ==
    /\ pc = "poll"
    /\ LET status == get_task_status(task_uuid)
           fetched == Append(trace, Ev("_get_task_status", task_uuid))
       IN  /\ task_status' = status
           /\ IF "status" \notin DOMAIN status
              THEN /\ pc' = "done"
                   /\ err' = KeyError("status")
                   /\ trace' = fetched
                   /\ UNCHANGED <<locals, result>>
              ELSE IF status.status = "Success"
              THEN /\ pc' = "done"
                   /\ locals' = [locals EXCEPT !.waited = wait_return(task_response, status)]
                   /\ result' = operation_return(op, task_response,
                                                 wait_return(task_response, status))
                   /\ trace' = fetched
                   /\ UNCHANGED err
              ELSE IF status.status = "Failure"
              THEN /\ pc' = "get_failed"
                   /\ trace' = fetched
                   /\ UNCHANGED <<locals, result, err>>
              ELSE IF "percent" \in DOMAIN status
              THEN /\ pc' = "sleep"
                   /\ trace' = Append(fetched, Ev("print", "Waiting"))
                   /\ UNCHANGED <<locals, result, err>>
              ELSE /\ pc' = "done"
                   /\ err' = KeyError("percent")
                   /\ trace' = fetched
                   /\ UNCHANGED <<locals, result>>
    /\ UNCHANGED <<op, args, task_response, task_uuid, submitted, invocations>>
    /\ UNCHANGED remote_vars

\* a loop that sleeps twice before it polls again
SleepTwice ==
    /\ pc = "sleep"
    /\ Count(trace, "time.sleep") < MaxPolls
    /\ pc' = "poll"
    /\ trace' = Append(Append(trace, Ev("time.sleep", "sleep_interval")),
                       Ev("time.sleep", "sleep_interval"))
    /\ UNCHANGED <<op, args, locals, task_response, task_uuid, task_status, result, err,
                   submitted, invocations>>
    /\ UNCHANGED remote_vars

\* line 137
Sleep ==
    /\ pc = "sleep"
    /\ Count(trace, "time.sleep") < MaxPolls
    /\ pc' = "poll"
    /\ trace' = Append(trace, Ev("time.sleep", "sleep_interval"))
    /\ UNCHANGED <<op, args, locals, task_response, task_uuid, task_status, result, err,
                   submitted, invocations>>
    /\ UNCHANGED remote_vars

\* lines 127-134: the failure detail and the error raised from it
GetFailed ==
    /\ pc = "get_failed"
    /\ \E action_failed_response \in FailedResponses :
        /\ err' = RuntimeError("TaskFailure",
                               failure_message(FriendlyName[op], task_uuid, action_failed_response),
                               << >>)
        /\ locals' = [locals EXCEPT !.action_failed_response = action_failed_response]
    /\ pc' = "done"
    /\ trace' = Append(trace, Ev("get_task_failed", task_uuid))
    /\ UNCHANGED <<op, args, task_response, task_uuid, task_status, result,
                   submitted, invocations>>
    /\ UNCHANGED remote_vars


\* -------------------------------------------------- create_xcluster_dr
\* lines 578-583
CreateGetConfigs ==
    /\ pc = "create_configs"
    /\ LET storage_configs == get_configs_by_type("STORAGE")
           event == Ev("_get_configs_by_type", "STORAGE")
       IN  IF Len(storage_configs) < 1
           THEN Raise(RuntimeError("NotFoundError",
                          <<"no storage configs found, at least one is required for xCluster DR setup!">>,
                          << >>), locals, event)
           ELSE Continue("create_source",
                         [locals EXCEPT !.storage_config_uuid = storage_configs[1].configUUID],
                         event)

\* the source looked up without the test for a DR config it already has
CreateGetSourceUnchecked ==
    /\ pc = "create_source"
    /\ LET get_source_universe_response == get_universe_by_name(args.source_universe_name)
           event == Ev("_get_universe_by_name", args.source_universe_name)
       IN  IF Len(get_source_universe_response) = 0
           THEN Raise(RuntimeError("NotFoundError",
                          <<"the universe", args.source_universe_name, "was not found">>,
                          << >>), locals, event)
           ELSE Continue("create_target",
                         [locals EXCEPT !.source_universe_uuid =
                             get_source_universe_response[1].universeUUID], event)

\* lines 586-600
CreateGetSource ==
    /\ pc = "create_source"
    /\ LET get_source_universe_response == get_universe_by_name(args.source_universe_name)
           event == Ev("_get_universe_by_name", args.source_universe_name)
       IN  IF Len(get_source_universe_response) = 0
           THEN Raise(RuntimeError("NotFoundError",
                          <<"the universe", args.source_universe_name, "was not found">>,
                          << >>), locals, event)
           ELSE IF Len(get_source_universe_response[1].drConfigUuidsAsSource) > 0
           THEN Raise(RuntimeError("ConflictError",
                          <<"the source universe", args.source_universe_name,
                            "already has a disaster-recovery config:",
                            get_source_universe_response[1].drConfigUuidsAsSource[1]>>,
                          << >>),
                      [locals EXCEPT !.source_universe_uuid =
                          get_source_universe_response[1].universeUUID], event)
           ELSE Continue("create_target",
                         [locals EXCEPT !.source_universe_uuid =
                             get_source_universe_response[1].universeUUID], event)

\* the target looked up without the test that it was found
CreateGetTargetUnchecked ==
    /\ pc = "create_target"
    /\ LET target_universe_response == get_universe_by_name(args.target_universe_name)
       IN  Continue("create_namespaces",
                    [locals EXCEPT !.target_universe_uuid =
                        IF Len(target_universe_response) = 0 THEN ""
                        ELSE target_universe_response[1].universeUUID],
                    Ev("_get_universe_by_name", args.target_universe_name))

\* lines 602-608
CreateGetTarget ==
    /\ pc = "create_target"
    /\ LET target_universe_response == get_universe_by_name(args.target_universe_name)
           event == Ev("_get_universe_by_name", args.target_universe_name)
       IN  IF Len(target_universe_response) = 0
           THEN Raise(RuntimeError("NotFoundError",
                          <<"the target universe", args.target_universe_name, "was not found">>,
                          << >>), locals, event)
           ELSE Continue("create_namespaces",
                         [locals EXCEPT !.target_universe_uuid =
                             target_universe_response[1].universeUUID], event)

\* lines 611-612; "in None" is a TypeError
CreateGetNamespaces ==
    /\ pc = "create_namespaces"
    /\ LET dbs_list == get_database_namespaces
           event == Ev("get_database_namespaces", locals.source_universe_uuid)
       IN  IF args.db_names.is_none /\ Len(dbs_list) > 0
           THEN Raise(RuntimeError("TypeError", <<"argument of type 'NoneType' is not iterable">>,
                                   << >>), locals, event)
           ELSE Continue("create_submit",
                         [locals EXCEPT !.dbs_list_uuids =
                             dbs_list_uuids_of(dbs_list, args.db_names.names)], event)

\* lines 615-617 and _create_dr_config (lines 262-278)
CreateDrConfig ==
    /\ pc = "create_submit"
    /\ SubmitAndWait("_create_dr_config", "dr1",
                     [bootstrapParams |-> BootstrapParams(locals.storage_config_uuid),
                      dbs |-> locals.dbs_list_uuids,
                      dryRun |-> FALSE,
                      sourceUniverseUUID |-> locals.source_universe_uuid,
                      targetUniverseUUID |-> locals.target_universe_uuid])

\* -------------------------------------------------- delete_xcluster_dr
\* lines 633-641
DeleteGetUniverse ==
    /\ pc = "delete_universe"
    /\ LET get_universe_response == get_universe_by_name(args.source_universe_name)
           event == Ev("_get_universe_by_name", args.source_universe_name)
       IN  IF Len(get_universe_response) = 0
           THEN Raise(RuntimeError("NotFoundError",
                          <<"source universe", args.source_universe_name, "was not found!">>,
                          << >>), locals, event)
           ELSE IF Len(get_universe_response[1].drConfigUuidsAsSource) = 0
           THEN Raise(RuntimeError("NotFoundError",
                          <<"source universe", args.source_universe_name,
                            "does not have a disaster-recovery config!">>, << >>),
                      locals, event)
           ELSE Continue("delete_submit",
                         [locals EXCEPT !.dr_config_source_uuid =
                             get_universe_response[1].drConfigUuidsAsSource[1]], event)

\* lines 643-644 and _delete_xcluster_dr_config (lines 294-295)
DeleteXclusterDrConfig ==
    /\ pc = "delete_submit"
    /\ SubmitAndWait("_delete_xcluster_dr_config", locals.dr_config_source_uuid,
                     [isForceDelete |-> FALSE])

\* ------------------------------------------------- the control plane
KeySpaceOf(namespace_uuids) ==
    {Namespaces[i].name : i \in {j \in DOMAIN Namespaces :
                                    Namespaces[j].namespaceUUID \in Range(namespace_uuids)}}

\* what a task does to the DR configs when it succeeds
ConfigAfter(t) ==
    CASE t.call = "_set_tables_in_dr_config" -> [dr_config EXCEPT !.tables = t.form.tables]
      [] t.call = "_create_dr_config" ->
            DrConfig(t.form.sourceUniverseUUID, t.form.targetUniverseUUID,
                     TableIDs(SelectSeq(get_all_ysql_tables_list(t.form.sourceUniverseUUID),
                                        LAMBDA tb : tb.keySpace \in KeySpaceOf(t.form.dbs))),
                     t.form.bootstrapParams.backupRequestParams.storageConfigUUID)
      [] OTHER -> dr_config

SourcesAfter(t) ==
    CASE t.call = "_create_dr_config" ->
            [u \in UniverseUUIDs |-> IF u = t.form.sourceUniverseUUID THEN <<"dr1">> ELSE << >>]
      [] t.call = "_delete_xcluster_dr_config" -> [u \in UniverseUUIDs |-> << >>]
      [] OTHER -> dr_as_source

CanSucceed(t) ==
    CASE t.call = "_create_dr_config" ->
            /\ \A u \in UniverseUUIDs : dr_as_source[u] = << >>
            /\ t.form.sourceUniverseUUID # t.form.targetUniverseUUID
      [] t.call = "_set_tables_in_dr_config" ->
            \E u \in UniverseUUIDs : t.target \in Range(dr_as_source[u])
      [] OTHER -> TRUE

\* the control plane moves the task on; a terminal task stays as it is
TaskProgress ==
    /\ task.data.status \notin Terminal
    /\ \E data \in { [status |-> "Running", percent |-> 50],
                     [status |-> "Success", percent |-> 100],
                     [status |-> "Failure", percent |-> 50] } :
        /\ data # task.data
        /\ data.status = "Success" => CanSucceed(task)
        /\ task' = [task EXCEPT !.data = data]
        /\ dr_config' = IF data.status = "Success" THEN ConfigAfter(task) ELSE dr_config
        /\ dr_as_source' = IF data.status = "Success" THEN SourcesAfter(task) ELSE dr_as_source
    /\ UNCHANGED <<customer_configs, central_tables, n_tasks, oob>>
    /\ UNCHANGED flow_vars

OutOfBandTables == {"t1", "t3"}

\* somebody else changes the membership of the DR config
OutOfBandChange ==
    /\ oob < MaxOutOfBand
    /\ \E u \in UniverseUUIDs : dr_as_source[u] # << >>
    /\ \E t \in OutOfBandTables :
        dr_config' = [dr_config EXCEPT !.tables =
                        IF t \in Range(dr_config.tables)
                        THEN SelectSeq(dr_config.tables, LAMBDA x : x # t)
                        ELSE Append(dr_config.tables, t)]
    /\ oob' = oob + 1
    /\ UNCHANGED <<dr_as_source, customer_configs, central_tables, task, n_tasks>>
    /\ UNCHANGED flow_vars

\* ------------------------------------------------------------------ Next
Next ==
    \/ Invoke
    \/ GetSourceUniverse
    \/ GetSourceConfig
    \/ AvailGetUniverse
    \/ AvailListTables
    \/ AvailSourceUniverse
    \/ AvailSourceConfig
    \/ ValidateReplica
    \/ SetTablesInDrConfig
    \/ SwitchoverXclusterDr
    \/ GetSafetime
    \/ FailoverXclusterDr
    \/ RestartXclusterDrConfig
    \/ SyncXclusterDrConfig
    \/ CreateGetConfigs
    \/ CreateGetSource
    \/ CreateGetTarget
    \/ CreateGetNamespaces
    \/ CreateDrConfig
    \/ DeleteGetUniverse
    \/ DeleteXclusterDrConfig
    \/ PollStatus
    \/ Sleep
    \/ GetFailed
    \/ TaskProgress
    \/ OutOfBandChange

Spec == Init /\ [][Next]_vars

\* one run of the flow against a control plane nobody else changes
NextInSequence ==
    \/ InvokeInSequence
    \/ GetSourceUniverse
    \/ GetSourceConfig
    \/ AvailGetUniverse
    \/ AvailListTables
    \/ AvailSourceUniverse
    \/ AvailSourceConfig
    \/ ValidateReplica
    \/ SetTablesInDrConfig
    \/ SwitchoverXclusterDr
    \/ GetSafetime
    \/ FailoverXclusterDr
    \/ RestartXclusterDrConfig
    \/ SyncXclusterDrConfig
    \/ CreateGetConfigs
    \/ CreateGetSource
    \/ CreateGetTarget
    \/ CreateGetNamespaces
    \/ CreateDrConfig
    \/ DeleteGetUniverse
    \/ DeleteXclusterDrConfig
    \/ PollStatus
    \/ Sleep
    \/ GetFailed
    \/ TaskProgress

SpecInSequence == Init /\ [][NextInSequence]_vars

\* runs that add or remove tables, against a control plane nobody else changes
NextTableChanges ==
    \/ InvokeTableChange
    \/ GetSourceUniverse
    \/ GetSourceConfig
    \/ AvailGetUniverse
    \/ AvailListTables
    \/ AvailSourceUniverse
    \/ AvailSourceConfig
    \/ ValidateReplica
    \/ SetTablesInDrConfig
    \/ PollStatus
    \/ Sleep
    \/ GetFailed
    \/ TaskProgress

SpecTableChanges == Init /\ [][NextTableChanges]_vars


\* ---------------------------------------------------------------- claims
LastStatus == IF "status" \in DOMAIN task_status THEN task_status.status ELSE ""

Submissions == {i \in DOMAIN trace : trace[i].call \in MutatingCalls}

IsAdd == op = "add_tables_to_xcluster_dr"

IsRemove == op = "remove_tables_from_xcluster_dr"

\* the wait has returned: the last status fetch saw Success
WaitReturned == pc = "done" /\ LastStatus = "Success"

\* C1 (as claimed): when the polled status is Success, wait_for_task returns
\* the resource identifier of the submission record it was given.
C1_ReturnsSubmittedResourceId ==
    WaitReturned =>
        locals.waited = [type |-> "str", value |-> task_response.resourceUUID]

\* the ids of the requested tables that are available (in the universe's
\* table list and not in the membership read for it)
RequestedAvailable ==
    {t \in Range(locals.all_tables_list) :
        /\ t.tableID \in args.table_ids
        /\ t.tableID \notin Range(locals.existing_tables_id)}

\* C2 (as claimed): the table set add_tables_to_xcluster_dr submits is the
\* membership of the DR config united with the requested ids that are
\* available and validated, and holds no other id.
C2_AddSubmitsMembershipAndRequested ==
    (IsAdd /\ submitted # << >>) =>
        Range(submitted[1].form.tables) =
            Range(locals.xcluster_dr_config.tables)
                \cup {t.tableID : t \in RequestedAvailable}

\* the text of the error after its four leading words
MessageTail == SubSeq(err.msg, 5, Len(err.msg))

\* C3: once the polled status is Failure the wait ends with one error and
\* no value; with a failedSubTasks collection the message holds every
\* subtask's error string, in order, a newline between two of them, and
\* without the collection it is the generic message.
C3_FailureRaisesAggregatedError ==
    (pc = "done" /\ LastStatus = "Failure") =>
        /\ err.kind = "TaskFailure"
        /\ result = NoResult
        /\ locals.waited = NoResult
        /\ LET detail == locals.action_failed_response
           IN  IF "failedSubTasks" \in DOMAIN detail
               THEN LET n == Len(detail.failedSubTasks)
                    IN  /\ Len(MessageTail) = (IF n = 0 THEN 0 ELSE 2 * n - 1)
                        /\ \A i \in 1..n :
                              MessageTail[2 * i - 1] = detail.failedSubTasks[i].errorString
                        /\ \A i \in 1..(n - 1) : MessageTail[2 * i] = "\n"
               ELSE err.msg[4] = "failed, but could not get the failure messages"

C3_Witness ==
    /\ pc = "done"
    /\ LastStatus = "Failure"
    /\ "failedSubTasks" \in DOMAIN locals.action_failed_response
    /\ Len(locals.action_failed_response.failedSubTasks) = 2
    /\ err.kind = "TaskFailure"

\* C4: a submission record without a task id makes wait_for_task raise a
\* submission error at once: no status fetch, no failure-detail fetch and no
\* sleep is made.
C4_NoTaskIdRaisesWithoutPolling ==
    (task_response # NoResponse /\ ~ HasTaskUUID(task_response)) =>
        /\ pc = "done"
        /\ err.kind = "SubmissionError"
        /\ result = NoResult
        /\ Count(trace, "_get_task_status") = 0
        /\ Count(trace, "get_task_failed") = 0
        /\ Count(trace, "time.sleep") = 0

C4_Witness ==
    /\ pc = "done"
    /\ task_response = [error |-> "rejected"]
    /\ err.kind = "SubmissionError"
    /\ Cardinality(Submissions) = 1

\* C5: an operation that ends with a not-found, conflict or validation error
\* has issued no mutating request.
C5_PreconditionErrorsBeforeAnySubmission ==
    (pc = "done" /\ err.kind \in {"NotFoundError", "ConflictError", "ValidationError"}) =>
        /\ Submissions = {}
        /\ submitted = << >>
        /\ task_response = NoResponse

C5_Witness ==
    /\ pc = "done"
    /\ IsAdd
    /\ err.kind = "ValidationError"
    /\ err.detail # << >>
    /\ Len(locals.filtered_dr_tables_list) > 0

\* the add has made its replica check (the second table listing)
ReplicaChecked == IsAdd /\ Count(trace, "_get_all_ysql_tables_list") = 2

ReplicaInventory ==
    get_all_ysql_tables_list(locals.xcluster_dr_config.drReplicaUniverseUuid)

\* the candidate has a table of the same keyspace, schema name and table
\* name on the replica
OnReplica(t) ==
    \E r \in Range(ReplicaInventory) :
        /\ r.keySpace = t.keySpace
        /\ r.pgSchemaName = t.pgSchemaName
        /\ r.tableName = t.tableName

\* C6: when a requested and available table has no table of the same
\* (keyspace, schema name, table name) on the replica, the add raises a
\* validation error and submits no set-tables request.
C6_UnmatchedTableBlocksAdd ==
    (ReplicaChecked /\ \E t \in RequestedAvailable : ~ OnReplica(t)) =>
        /\ pc = "done"
        /\ err.kind = "ValidationError"
        /\ submitted = << >>
        /\ Submissions = {}
        /\ task_response = NoResponse

C6_Witness ==
    /\ ReplicaChecked
    /\ args.table_ids = {"t3"}
    /\ locals.existing_tables_id = <<"t1", "t2">>
    /\ err.kind = "ValidationError"
    /\ dr_config.tables = <<"t1", "t2">>

\* C7: _validate_dr_replica_tables raises exactly when some candidate's
\* (keyspace, schema name, table name) is absent from the replica inventory,
\* and the error lists the unmatched candidates, all of them and only them,
\* in the candidates' order; table ids take no part.
C7_ValidateListsExactlyTheUnmatched ==
    ReplicaChecked =>
        LET candidates == locals.filtered_dr_tables_list
            unmatched == {i \in DOMAIN candidates : ~ OnReplica(candidates[i])}
        IN  /\ (err.kind = "ValidationError") <=> (unmatched # {})
            /\ Len(err.detail) = Cardinality(unmatched)
            /\ \A i \in unmatched :
                  err.detail[Cardinality({j \in unmatched : j <= i})] = candidates[i]

\* one candidate matched and one not, while the replica holds a table with
\* the unmatched candidate's id
C7_Witness ==
    /\ ReplicaChecked
    /\ Len(locals.filtered_dr_tables_list) = 2
    /\ Len(err.detail) = 1
    /\ \E r \in Range(ReplicaInventory) : r.tableID = err.detail[1].tableID

\* the remove has read the DR config
RemoveRead == IsRemove /\ Count(trace, "_get_xcluster_dr_configs") = 1 /\ err.kind # "KeyError"

\* C8: remove_tables_from_xcluster_dr raises a validation error and submits
\* nothing when no requested id is in the membership it read, an empty
\* membership included.
C8_RemoveOfNoMemberRaises ==
    (RemoveRead /\ args.table_ids \cap Range(locals.xcluster_dr_config.tables) = {}) =>
        /\ pc = "done"
        /\ err.kind = "ValidationError"
        /\ submitted = << >>
        /\ Submissions = {}

C8_Witness ==
    /\ RemoveRead
    /\ locals.xcluster_dr_config.tables = << >>
    /\ err.kind = "ValidationError"

\* C9: the table set remove_tables_from_xcluster_dr submits is the
\* membership it read without the requested ids, in the membership's order.
C9_RemoveSubmitsMembershipMinusRequested ==
    (IsRemove /\ submitted # << >>) =>
        LET current == locals.xcluster_dr_config.tables
            sent == submitted[1].form.tables
            kept == {k \in DOMAIN current : current[k] \notin args.table_ids}
        IN  /\ Len(submitted) = 1
            /\ submitted[1].call = "_set_tables_in_dr_config"
            /\ Len(sent) = Cardinality(kept)
            /\ \A k \in kept : sent[Cardinality({j \in kept : j <= k})] = current[k]

C9_Witness ==
    /\ IsRemove
    /\ submitted # << >>
    /\ Len(locals.xcluster_dr_config.tables) = 3
    /\ Len(submitted[1].form.tables) = 2

AvailableComputed ==
    IsAdd /\ Count(trace, "_get_xcluster_dr_configs") = 2 /\ err.kind # "KeyError"

\* C11: get_xcluster_dr_available_tables returns the tables of the
\* universe's table list whose id is not in the membership it read, all of
\* them and only them, in the order of the table list; no id of the result is
\* in that membership.
C11_AvailableIsListMinusMembership ==
    AvailableComputed =>
        LET all == locals.all_tables_list
            current == Range(locals.existing_tables_id)
            out == locals.available_dr_tables
            kept == {k \in DOMAIN all : all[k].tableID \notin current}
        IN  /\ Len(out) = Cardinality(kept)
            /\ \A k \in kept : out[Cardinality({j \in kept : j <= k})] = all[k]
            /\ {out[i].tableID : i \in DOMAIN out} \cap current = {}

C11_Witness ==
    /\ AvailableComputed
    /\ Len(locals.all_tables_list) = 4
    /\ locals.existing_tables_id = <<"t2">>
    /\ Len(locals.available_dr_tables) = 3

\* C12: when no table of the universe's list that is outside the membership
\* has a requested id, add_tables_to_xcluster_dr raises a validation error:
\* it makes no replica check (no second table listing) and no submission.
C12_NothingToAddRaises ==
    (AvailableComputed /\ RequestedAvailable = {}) =>
        /\ pc = "done"
        /\ err.kind = "ValidationError"
        /\ result = NoResult
        /\ Count(trace, "_get_all_ysql_tables_list") = 1
        /\ submitted = << >>
        /\ Submissions = {}
        /\ task_response = NoResponse

\* t1 and t3 are members, t8 is no table of the universe
C12_Witness ==
    /\ AvailableComputed
    /\ args.table_ids = {"t1", "t3", "t8"}
    /\ "t3" \in Range(locals.existing_tables_id)
    /\ Len(locals.available_dr_tables) > 0
    /\ err.kind = "ValidationError"

IsCreate == op = "create_xcluster_dr"

\* the named source universe has a DR config as source
SourceHasDr ==
    /\ args.source_universe_name \in DOMAIN UniverseUUIDByName
    /\ dr_as_source[UniverseUUIDByName[args.source_universe_name]] # << >>

NothingSubmitted ==
    /\ submitted = << >>
    /\ Submissions = {}
    /\ task_response = NoResponse

\* C13 (as claimed): create_xcluster_dr raises a conflict error and submits
\* no create action whenever the named source universe already has a DR
\* config as source.
C13_ExistingDrAlwaysConflict ==
    [][(IsCreate /\ pc \in {"create_configs", "create_source"} /\ SourceHasDr /\ pc' = "done")
          => (err'.kind = "ConflictError" /\ NothingSubmitted')]_vars

\* C13 (amended): whenever the named source universe already has a DR config
\* as source, create_xcluster_dr submits no create action and ends with an
\* error at its first or second check: the conflict error when a storage
\* config exists, the error for the missing storage config when none does.
C13_ExistingDrBlocksCreate ==
    [][(IsCreate /\ pc \in {"create_configs", "create_source"} /\ SourceHasDr /\ pc' # pc)
          => /\ NothingSubmitted'
             /\ result' = NoResult
             /\ IF get_configs_by_type("STORAGE") = << >>
                THEN pc' = "done" /\ err'.kind = "NotFoundError" /\ Len(trace') = 1
                ELSE IF pc = "create_configs"
                THEN pc' = "create_source"
                ELSE pc' = "done" /\ err'.kind = "ConflictError"]_vars

\* the conflict is raised before the target name is looked up
C13_Witness ==
    /\ IsCreate
    /\ pc = "done"
    /\ err.kind = "ConflictError"
    /\ args.target_universe_name = "nowhere"
    /\ Len(trace) = 2

\* a name that is no universe's
Unresolved(universe_name) == universe_name \notin DOMAIN UniverseUUIDByName

\* C14: when the source name or the target name is no universe's, or there
\* is no storage config, create_xcluster_dr never gets to its namespace
\* listing or its submission: it submits nothing and ends with an error and
\* no value.
C14_CreatePreconditionsBlockCreate ==
    (IsCreate /\ (\/ Unresolved(args.source_universe_name)
                  \/ Unresolved(args.target_universe_name)
                  \/ get_configs_by_type("STORAGE") = << >>)) =>
        /\ pc \in {"create_configs", "create_source", "create_target", "done"}
        /\ NothingSubmitted
        /\ Count(trace, "get_database_namespaces") = 0
        /\ pc = "done" => /\ err.kind \in {"NotFoundError", "ConflictError"}
                          /\ result = NoResult

\* source found and free of a DR config, storage config found, target not
\* found
C14_Witness ==
    /\ IsCreate
    /\ pc = "done"
    /\ Unresolved(args.target_universe_name)
    /\ err.kind = "NotFoundError"
    /\ Len(trace) = 3

\* C15: once a status fetch has returned Failure the operation only fetches
\* the failure detail and raises: it is at that fetch or has ended with the
\* one task-failure error and no value, and until the flow invokes its next
\* operation no step fetches a status, sleeps, submits or changes the error
\* raised.
C15_FailureIsFatal ==
    [][/\ LastStatus' = "Failure" =>
            /\ pc' \in {"get_failed", "done"}
            /\ pc' = "get_failed" => err' = NoError
            /\ pc' = "done" => (err'.kind = "TaskFailure" /\ result' = NoResult)
            /\ Len(submitted') = 1
       /\ (LastStatus = "Failure" /\ invocations' = invocations) =>
            /\ task_status' = task_status
            /\ Count(trace', "_get_task_status") = Count(trace, "_get_task_status")
            /\ Count(trace', "time.sleep") = Count(trace, "time.sleep")
            /\ submitted' = submitted
            /\ Submissions' = Submissions
            /\ pc = "done" => (err' = err /\ trace' = trace)]_vars

\* the failure seen at the third status fetch
C15_Witness ==
    /\ pc = "done"
    /\ LastStatus = "Failure"
    /\ err.kind = "TaskFailure"
    /\ Count(trace, "_get_task_status") = 3
    /\ Count(trace, "get_task_failed") = 1
    /\ Len(submitted) = 1

\* the requests and effects of wait_for_task
WaitCalls == {"_get_task_status", "get_task_failed", "print", "time.sleep"}

\* C16: an operation issues at most one mutating request; what follows it is
\* the wait on the task of its response, beginning with a status fetch of
\* that task; an operation that has submitted returns without error only
\* when that task is terminal; and the flow, calling its operations one after
\* the other, makes no submission while a task of an earlier call is still
\* in flight.
C16_OneSubmissionThenItsWait ==
    [][/\ Len(submitted') <= 1
       /\ Cardinality(Submissions') = Len(submitted')
       /\ \A i \in Submissions' :
            /\ i < Len(trace') =>
                  /\ HasTaskUUID(task_response')
                  /\ trace'[i + 1] = Ev("_get_task_status", task_response'.taskUUID)
            /\ \A j \in (i + 1)..Len(trace') :
                  /\ trace'[j].call \in WaitCalls
                  /\ trace'[j].call \in {"_get_task_status", "get_task_failed"} =>
                        trace'[j].arg = task_response'.taskUUID
       /\ submitted' # << >> => pc' \in {"poll", "sleep", "get_failed", "done"}
       /\ (pc' = "done" /\ err'.kind = "none" /\ submitted' # << >>) =>
            /\ HasTaskUUID(task_response')
            /\ task'.uuid = task_response'.taskUUID
            /\ task'.data.status \in Terminal
       /\ Len(submitted') > Len(submitted) => task.data.status \in Terminal]_vars

\* the second operation of a run has returned from the wait on its own task
C16_Witness ==
    /\ invocations = 2
    /\ pc = "done"
    /\ err.kind = "none"
    /\ Len(submitted) = 1
    /\ task.uuid = "task2"
    /\ task_response.taskUUID = "task2"

IsFailover == op = "perform_xcluster_dr_failover"

\* C17: the failover request is the fourth request of its operation: the
\* DR config fetch, then the one safe-time fetch, then the submission, with
\* nothing between them; the map submitted has one entry for each namespace
\* of the snapshot fetched, its namespace id mapped to its safe-time, and no
\* other entry.
C17_FailoverSubmitsFreshSafetimes ==
    (IsFailover /\ submitted # << >>) =>
        LET st == locals.xcluster_dr_safetimes.safetimes
            sent == submitted[1].form.namespaceIdSafetimeEpochUsMap
        IN  /\ Submissions = {4}
            /\ Len(submitted) = 1
            /\ trace[2].call = "_get_xcluster_dr_configs"
            /\ trace[3] = Ev("_get_xcluster_dr_safetime", locals.xcluster_dr_config.uuid)
            /\ trace[4] = Ev("_failover_xcluster_dr", locals.xcluster_dr_config.uuid)
            /\ Count(trace, "_get_xcluster_dr_safetime") = 1
            /\ DOMAIN sent = {st[k].namespaceId : k \in DOMAIN st}
            /\ Cardinality(DOMAIN sent) = Len(st)
            /\ \A k \in DOMAIN st :
                  st[k].namespaceId \in DOMAIN sent => sent[st[k].namespaceId] = st[k].safetimeEpochUs

C17_Witness ==
    /\ IsFailover
    /\ submitted # << >>
    /\ Len(locals.xcluster_dr_safetimes.safetimes) = 2
    /\ "n2" \in DOMAIN submitted[1].form.namespaceIdSafetimeEpochUsMap
    /\ pc = "poll"

\* the last status fetched was neither Success nor Failure
LastStatusNonTerminal == LastStatus # "" /\ LastStatus \notin Terminal

\* C18 (as claimed): on every polled status other than Success and Failure
\* the wait neither returns nor raises: it has emitted its progress line and
\* sleeps, or has slept and is about to fetch the status of the same task
\* again.
C18_NonTerminalStatusKeepsWaiting ==
    LastStatusNonTerminal =>
        /\ err = NoError
        /\ result = NoResult
        /\ pc \in {"sleep", "poll"}
        /\ pc = "sleep" => trace[Len(trace)].call = "print"
        /\ pc = "poll" => trace[Len(trace)].call = "time.sleep"
        /\ \A i \in DOMAIN trace :
              trace[i].call = "_get_task_status" => trace[i].arg = task_uuid

\* C19 (as claimed): on a status record that is not terminal and carries no
\* percent, wait_for_task emits a progress line and goes on polling; it
\* raises nothing.
C19_MissingPercentStillPolls ==
    (LastStatusNonTerminal /\ "percent" \notin DOMAIN task_status) =>
        /\ err = NoError
        /\ pc \in {"sleep", "poll"}
        /\ Count(trace, "print") >= 1

\* the control plane completes a set-tables task with Success
SetTablesSucceeds ==
    /\ task.call = "_set_tables_in_dr_config"
    /\ task.data.status \notin Terminal
    /\ task'.uuid = task.uuid
    /\ task'.data.status = "Success"

WaitBegun == task_uuid # "" /\ task.uuid = task_uuid

\* C21 (as claimed, its second half): wait_for_task does not terminate,
\* neither returning nor raising, while the task it waits on has not
\* reached Success or Failure.
C21_WaitEndsOnlyOnTerminalTask ==
    (WaitBegun /\ pc = "done") => task.data.status \in Terminal

\* the steps that look the source universe and its DR config up by name
SourceLookups == {"src_universe", "delete_universe", "avail_src_universe"}

\* C22: in delete, add, remove, switchover, failover, repair and sync, the
\* lookup of the named source universe ends the operation with a not-found
\* error and nothing submitted whenever no universe has that name or the
\* universe has no DR config as source.
C22_NoSourceDrConfigIsNotFound ==
    [][(pc \in SourceLookups /\ pc' # pc /\ ~ SourceHasDr) =>
          /\ ~ IsCreate
          /\ pc' = "done"
          /\ err'.kind = "NotFoundError"
          /\ result' = NoResult
          /\ NothingSubmitted']_vars

\* the universe exists and has no DR config
C22_Witness ==
    /\ op = "perform_xcluster_dr_failover"
    /\ pc = "done"
    /\ err.kind = "NotFoundError"
    /\ args.source_universe_name = "east"
    /\ dr_as_source["u-east"] = << >>
    /\ Len(trace) = 1

\* the membership of the last DR config fetch the operation made
LatestMembershipRead ==
    IF IsAdd THEN locals.existing_tables_id ELSE locals.xcluster_dr_config.tables

\* C23 (as claimed): the table set an add or a remove submits is computed
\* from the membership of the last DR config fetch the operation made before
\* it: an add submits that membership followed by new ids, a remove submits
\* that membership without the requested ids.
C23_SubmittedFromLatestFetch ==
    (submitted # << >> /\ (IsAdd \/ IsRemove)) =>
        LET latest == LatestMembershipRead
            sent == submitted[1].form.tables
        IN  IF IsAdd
            THEN /\ Len(sent) >= Len(latest)
                 /\ SubSeq(sent, 1, Len(latest)) = latest
            ELSE /\ Range(sent) = Range(latest) \ args.table_ids
                 /\ Count(trace, "_get_xcluster_dr_configs") = 1

\* C24 (as claimed): after the submission every request of the operation is
\* a query of the wait (task status, failure detail), and the wait has
\* emitted one progress line for each status fetch that read a status other
\* than Success and Failure: as many lines as fetches while the last status
\* read is not terminal, one less once it is.
C24_WaitOnlyQueriesAndReports ==
    /\ \A i \in Submissions : \A j \in (i + 1)..Len(trace) : trace[j].call \in WaitCalls
    /\ LET fetches == Count(trace, "_get_task_status")
           lines == Count(trace, "print")
       IN  lines = IF LastStatusNonTerminal THEN fetches
                   ELSE IF fetches = 0 THEN 0 ELSE fetches - 1

\* C25: create_xcluster_dr returns a value only when its wait has read
\* Success for the task of its create request, and the value is the
\* resourceUUID of that request's response; when the task has failed, or the
\* response carries no task id, it ends with an error and no value.
C25_CreateReturnsResourceAfterSuccess ==
    IsCreate =>
        /\ result # NoResult =>
              /\ pc = "done"
              /\ err = NoError
              /\ LastStatus = "Success"
              /\ Len(submitted) = 1
              /\ HasTaskUUID(task_response)
              /\ trace[Len(trace)] = Ev("_get_task_status", task_response.taskUUID)
              /\ result = [type |-> "str", value |-> task_response.resourceUUID]
        /\ WaitReturned => result # NoResult
        /\ (pc = "done" /\ LastStatus = "Failure") =>
              (err.kind = "TaskFailure" /\ result = NoResult)
        /\ (pc = "done" /\ submitted # << >> /\ ~ HasTaskUUID(task_response)) =>
              (err.kind = "SubmissionError" /\ result = NoResult)

\* the create has returned after a wait of more than one poll, and the DR
\* config it names exists
C25_Witness ==
    /\ IsCreate
    /\ pc = "done"
    /\ result = [type |-> "str", value |-> "dr1"]
    /\ Count(trace, "time.sleep") >= 1
    /\ dr_as_source["u-east"] = <<"dr1">>

\* C26 (as claimed): the table list add_tables_to_xcluster_dr submits holds
\* no table id twice, whatever happens to the membership between the
\* operation's two reads of the DR config.
C26_AddSubmitsNoDuplicateIds ==
    (IsAdd /\ submitted # << >>) =>
        LET sent == submitted[1].form.tables
        IN  \A i, j \in DOMAIN sent : sent[i] = sent[j] => i = j

\* C27: when a requested id is in the membership it read,
\* remove_tables_from_xcluster_dr raises no validation error and goes on to
\* its submission; the set it submits is the membership without the
\* requested ids, requested ids outside the membership making no
\* difference, and it is empty when the requested ids cover the membership.
C27_RemoveOfSomeMemberSubmits ==
    (RemoveRead /\ args.table_ids \cap Range(locals.xcluster_dr_config.tables) # {}) =>
        LET current == Range(locals.xcluster_dr_config.tables)
        IN  /\ err.kind # "ValidationError"
            /\ pc \in {"set_tables", "poll", "sleep", "get_failed", "done"}
            /\ pc # "set_tables" => Len(submitted) = 1
            /\ submitted # << >> =>
                  /\ Range(submitted[1].form.tables) = current \ args.table_ids
                  /\ current \subseteq args.table_ids => submitted[1].form.tables = << >>

\* the one member is requested along with two ids that are no members: the
\* set submitted is empty
C27_Witness ==
    /\ RemoveRead
    /\ args.table_ids = {"t1", "t3", "t8"}
    /\ locals.xcluster_dr_config.tables = <<"t1">>
    /\ submitted # << >>
    /\ submitted[1].form.tables = << >>

\* the places of the status fetches and of the sleeps in the operation's history
Fetches == {i \in DOMAIN trace : trace[i].call = "_get_task_status"}

Sleeps == {i \in DOMAIN trace : trace[i].call = "time.sleep"}

\* C28: between two status fetches with no fetch between them lies exactly
\* one sleep; no sleep comes before the first fetch; at most one sleep
\* follows the last fetch, and none once that fetch has read Success or
\* Failure, after which the wait is past its loop; every status fetch asks
\* for the task id of the submission's response.
C28_OneSleepBetweenFetches ==
    /\ \A i, j \in Fetches :
          (i < j /\ \A k \in Fetches : ~ (i < k /\ k < j)) =>
              Cardinality({s \in Sleeps : i < s /\ s < j}) = 1
    /\ \A s \in Sleeps : \E i \in Fetches : i < s
    /\ \A i \in Fetches :
          /\ HasTaskUUID(task_response)
          /\ trace[i].arg = task_response.taskUUID
          /\ (\A k \in Fetches : k <= i) =>
                /\ Cardinality({s \in Sleeps : s > i}) <= 1
                /\ LastStatus \in Terminal =>
                      /\ {s \in Sleeps : s > i} = {}
                      /\ pc \in {"get_failed", "done"}

\* a wait of three fetches and two sleeps that has read Success
C28_Witness ==
    /\ Cardinality(Fetches) = 3
    /\ Cardinality(Sleeps) = 2
    /\ LastStatus = "Success"
    /\ pc = "done"
    /\ op = "perform_xcluster_dr_sync"

====
